---- MODULE Spec2Model ----
(***************************************************************************)
(* Model of video_downloader.py: the retrying fetch, the upload with local *)
(* fallback, the per-episode pipeline, the series runner and the campaign  *)
(* runner.  Strings are sequences of one-character strings so that the     *)
(* names the program derives (keys, paths) are computed, not assumed.      *)
(***************************************************************************)
EXTENDS Integers, Sequences, FiniteSets, TLC

(* ------------------------------------------------------------------ *)
(* Configuration constants of the program                             *)
(* ------------------------------------------------------------------ *)
MAX_RETRY_ATTEMPTS == 5

REQUEST_DELAY == 2

MAX_THREADS == 4

TEMP_DIR == <<"/", "t", "m", "p">>

DOWNLOAD_DIR == <<"d", "o", "w", "n", "l", "o", "a", "d", "s">>

(* the three upload endpoints tried in turn by upload_file *)
UploadEndpoints == 3

(* ------------------------------------------------------------------ *)
(* Bounds of the model                                                *)
(* ------------------------------------------------------------------ *)
(* most episodes an enumeration returns *)
MaxEpisodes == 2

(* most process_episode calls a client makes (SpecEpisode) *)
MaxCalls == 2

(* most anomalies of the environment in one run: a disk error (makedirs,
   copy2 or remove raising), Popen raising, or an extractor that blocks or
   whose output file does not match its return code *)
MaxAnomalies == 1

(* ------------------------------------------------------------------ *)
(* The catalog imported from transcript_fetcher: name and whether the *)
(* entry has the 'link' field read by process_drama_sequentially.      *)
(* ------------------------------------------------------------------ *)
dramas ==
    << [name |-> <<"a">>,           link |-> TRUE],
       [name |-> <<"b">>,           link |-> FALSE],
       [name |-> <<"a", "_", "1">>, link |-> TRUE] >>

(* ------------------------------------------------------------------ *)
(* String helpers                                                     *)
(* ------------------------------------------------------------------ *)
Digit(n) == <<"0", "1", "2", "3", "4", "5", "6", "7", "8", "9">>[n + 1]

RECURSIVE IntToStr(_)
IntToStr(n) ==
    IF n < 10 THEN <<Digit(n)>>
    ELSE IntToStr(n \div 10) \o <<Digit(n % 10)>>

StartsWith(s, p) ==
    /\ Len(s) >= Len(p)
    /\ SubSeq(s, 1, Len(p)) = p

EndsWith(s, p) ==
    /\ Len(s) >= Len(p)
    /\ SubSeq(s, Len(s) - Len(p) + 1, Len(s)) = p

(* os.path.join(a, b): an absolute b discards a *)
path_join(a, b) ==
    IF StartsWith(b, <<"/">>) THEN b
    ELSE IF a = <<>> \/ EndsWith(a, <<"/">>) THEN a \o b
    ELSE a \o <<"/">> \o b

(* os.path.basename(p): what follows the last "/" *)
basename(p) ==
    LET slashes == {i \in 1..Len(p) : p[i] = "/"} IN
    IF slashes = {} THEN p
    ELSE LET last == CHOOSE i \in slashes : \A j \in slashes : j <= i
         IN  SubSeq(p, last + 1, Len(p))

(* a key that leaves the series name out *)
episode_key_IndexOnly(drama_name, idx) == IntToStr(idx)

(* f"{drama_name}_{idx}" *)
episode_key(drama_name, idx) == drama_name \o <<"_">> \o IntToStr(idx)

(* f"{drama_name}_Ep_{idx}.mp4" *)
episode_filename(drama_name, idx) ==
    drama_name \o <<"_", "E", "p", "_">> \o IntToStr(idx)
               \o <<".", "m", "p", "4">>

temp_path(drama_name, idx) ==
    path_join(TEMP_DIR, episode_filename(drama_name, idx))

(* f"/dramas/{drama_name}/{episode_filename}" *)
terabox_path(drama_name, idx) ==
    <<"/", "d", "r", "a", "m", "a", "s", "/">> \o drama_name \o <<"/">>
        \o episode_filename(drama_name, idx)

(* the four candidate sidecar suffixes, in the order the code tries them *)
TranscriptSuffixes ==
    << <<"_", "E", "n", "g", "l", "i", "s", "h", "_", "T", ".", "t", "x", "t">>,
       <<"_", "E", "n", "g", "l", "i", "s", "h", ".", "t", "x", "t">>,
       <<"_", "U", "r", "d", "u", "_", "T", ".", "t", "x", "t">>,
       <<"_", "U", "r", "d", "u", ".", "t", "x", "t">> >>

(* transcript_files[v] of process_episode *)
transcript_file(drama_name, idx, v) ==
    <<"t", "r", "a", "n", "s", "c", "r", "i", "p", "t", "s", "/">>
        \o drama_name \o <<"_", "E", "p", "_">> \o IntToStr(idx)
        \o TranscriptSuffixes[v]

(* f"/transcripts/{drama_name}/{transcript_filename}" *)
terabox_transcript_path(drama_name, idx, v) ==
    <<"/", "t", "r", "a", "n", "s", "c", "r", "i", "p", "t", "s", "/">>
        \o drama_name \o <<"/">> \o basename(transcript_file(drama_name, idx, v))

DramaNames == {dramas[i].name : i \in 1..Len(dramas)}


(* os.getcwd() of the process *)
CWD == <<"/", "w">>

(* p.split('/'): the components between the slashes of p *)
SplitPath(p) ==
    LET slashes == {i \in 1..Len(p) : p[i] = "/"}
        slash(k) ==
            CHOOSE i \in slashes : Cardinality({j \in slashes : j <= i}) = k
        n == Cardinality(slashes) + 1
    IN  [k \in 1..n |->
            SubSeq(p, IF k = 1 THEN 1 ELSE slash(k - 1) + 1,
                      IF k = n THEN Len(p) ELSE slash(k) - 1)]

(* one iteration of the loop of posixpath.normpath: an empty or "."
   component is dropped, ".." removes the component before it, is dropped
   at the root and is kept at the start of a relative path *)
CollapseStep(new_comps, comp, initial_slashes) ==
    IF comp = <<>> \/ comp = <<".">> THEN new_comps
    ELSE IF \/ comp # <<".", ".">>
            \/ initial_slashes = 0 /\ new_comps = <<>>
            \/ /\ new_comps # <<>>
               /\ new_comps[Len(new_comps)] = <<".", ".">>
    THEN Append(new_comps, comp)
    ELSE IF new_comps # <<>>
    THEN SubSeq(new_comps, 1, Len(new_comps) - 1)
    ELSE new_comps

(* the loop over the components from the i-th on; the bound variables
   hold the index and the list of the next iteration as values *)
RECURSIVE CollapseDots(_, _, _, _)
CollapseDots(comps, i, new_comps, initial_slashes) ==
    IF i > Len(comps) THEN new_comps
    ELSE CHOOSE result \in
             { CollapseDots(comps, j, next_comps, initial_slashes) :
                   j \in {i + 1},
                   next_comps \in
                       {CollapseStep(new_comps, comps[i], initial_slashes)} } :
             TRUE

(* '/'.join(comps[k:]) *)
RECURSIVE JoinPath(_, _)
JoinPath(comps, k) ==
    IF k > Len(comps) THEN <<>>
    ELSE IF k = Len(comps) THEN comps[k]
    ELSE comps[k] \o <<"/">> \o JoinPath(comps, k + 1)

(* posixpath.normpath for a non-empty p: exactly two leading slashes are
   kept as two *)
NormalisedPath(p) ==
    LET initial_slashes ==
            IF ~StartsWith(p, <<"/">>) THEN 0
            ELSE IF StartsWith(p, <<"/", "/">>)
                    /\ ~StartsWith(p, <<"/", "/", "/">>)
            THEN 2 ELSE 1
        Joined(new_comps) ==
            [k \in 1..initial_slashes |-> "/"] \o JoinPath(new_comps, 1)
    IN  CHOOSE path \in
            { IF Joined(new_comps) = <<>> THEN <<".">> ELSE Joined(new_comps) :
                  new_comps \in
                      { CollapseDots(comps, 1, <<>>, initial_slashes) :
                            comps \in {SplitPath(p)} } } :
            TRUE

(* os.path.normpath(p) *)
normpath(p) ==
    IF p = <<>> THEN <<".">>
    ELSE CHOOSE path \in {NormalisedPath(q) : q \in {p}} : TRUE

(* os.path.abspath(p): normpath(join(os.getcwd(), p)) *)
abspath(p) == normpath(path_join(CWD, p))

(* ------------------------------------------------------------------ *)
(* The file system: a function from the paths that exist to the size  *)
(* class of the file ("empty" is a zero-byte file).                   *)
(* ------------------------------------------------------------------ *)
exists(f, p) == p \in DOMAIN f

(* the path is worked out once *)
WriteFile(f, p, v) ==
    CHOOSE g \in {[q \in (DOMAIN f) \cup {at} |-> IF q = at THEN v ELSE f[q]] :
                     at \in {p}} : TRUE

RemoveFile(f, p) == [q \in (DOMAIN f) \ {p} |-> f[q]]

NoFiles == [q \in {} |-> "data"]

(* The directories there are when upload_file copies: the working
   directory, the fallback directory os.makedirs has just made, the temp
   directory and the root. *)
Directories == {CWD, abspath(DOWNLOAD_DIR), TEMP_DIR, <<"/">>}

(* os.path.isdir(p) *)
isdir(p) == abspath(p) \in Directories

(* Where shutil.copy2(src, dst) writes: into dst under the name of src
   when dst is a directory, at dst otherwise.  The file system knows a
   file by its normalised path. *)
CopyTarget(src, dst) ==
    IF isdir(dst) THEN normpath(path_join(dst, basename(src))) ELSE dst

(* ------------------------------------------------------------------ *)
(* TeraboxUploader.upload_file                                        *)
(* ------------------------------------------------------------------ *)
None == [kind |-> "None", path |-> <<>>]

ShareLink == [kind |-> "share", path |-> <<>>]

GenericLink == [kind |-> "generic", path |-> <<>>]

FileLink(p) == [kind |-> "file", path |-> p]

(* truthiness of the value upload_file returns *)
Truthy(link) == link.kind # "None"

(* The loop over the upload endpoints (lines 264-292): each endpoint's
   outcome is "accept" (HTTP 200 with errno 0), "reject" (any other
   response) or "raise" (every domain failed); the first accepting
   endpoint ends the loop. *)
EndpointOutcomes == [1..UploadEndpoints -> {"accept", "reject", "raise"}]

RemoteAccepted(outcomes) ==
    \E e \in 1..UploadEndpoints : outcomes[e] = "accept"

(* What the local disk does in one attempt to save a file locally:
   "ok", or os.makedirs raises ("raise"), or shutil.copy2 fails after it
   created the destination, leaving it empty ("empty") or with a part of
   the data ("partial"). *)
DiskOutcomes == {"ok", "raise", "empty", "partial"}

(* What the environment decides during one upload_file call: whether the
   endpoint loop found an accepting endpoint, whether a share link can be
   generated, and what the local disk does in the first and in the second
   attempt to save the file locally. *)
UploadEnvs ==
    [accepted : {RemoteAccepted(o) : o \in EndpointOutcomes},
     share : BOOLEAN, disk1 : DiskOutcomes, disk2 : DiskOutcomes]

UploadAnomalies(env) ==
    IF env.disk1 = "ok" /\ env.disk2 = "ok" THEN 0 ELSE 1

(* what a copy2 that failed on its own leaves at the destination *)
FailedCopy(f, local_path, local_save_path, disk) ==
    WriteFile(f, CopyTarget(local_path, local_save_path),
              IF disk = "partial" THEN f[local_path] ELSE "empty")

(* a local save that moves a file from outside TEMP_DIR into the fallback
   directory instead of handing out a reference to it *)
LocalSave_MoveSource(f, local_path, remote_path, disk) ==
    LET local_save_path == path_join(DOWNLOAD_DIR, basename(remote_path)) IN
    IF disk = "raise" THEN [raised |-> TRUE, link |-> None, fs |-> f]
    ELSE IF ~exists(f, local_path)
    THEN [raised |-> TRUE, link |-> None, fs |-> f]
    ELSE IF StartsWith(local_path, TEMP_DIR)
    THEN IF disk = "ok"
         THEN [raised |-> FALSE,
               link |-> FileLink(abspath(local_save_path)),
               fs |-> WriteFile(f, CopyTarget(local_path, local_save_path),
                                f[local_path])]
         ELSE [raised |-> TRUE, link |-> None,
               fs |-> FailedCopy(f, local_path, local_save_path, disk)]
    ELSE [raised |-> FALSE,
          link |-> FileLink(abspath(local_save_path)),
          fs |-> WriteFile(RemoveFile(f, local_path),
                           CopyTarget(local_path, local_save_path),
                           f[local_path])]

(* the local-fallback block (lines 229-241, 295-307, 314-326): raised is
   TRUE when makedirs or copy2 raises; copy2 is called for a file under
   TEMP_DIR only, raises before it creates the destination when the
   source is missing, and leaves the destination behind when it fails
   while copying.  When basename(remote_path) is empty, "." or "..",
   local_save_path is a directory: copy2 copies into it, and the link
   is to that directory. *)
LocalSave(f, local_path, remote_path, disk) ==
    LET local_save_path == path_join(DOWNLOAD_DIR, basename(remote_path)) IN
    IF disk = "raise" THEN [raised |-> TRUE, link |-> None, fs |-> f]
    ELSE IF StartsWith(local_path, TEMP_DIR)
    THEN IF ~exists(f, local_path)
         THEN [raised |-> TRUE, link |-> None, fs |-> f]
         ELSE IF disk = "ok"
         THEN [raised |-> FALSE,
               link |-> FileLink(abspath(local_save_path)),
               fs |-> WriteFile(f, CopyTarget(local_path, local_save_path),
                                f[local_path])]
         ELSE [raised |-> TRUE, link |-> None,
               fs |-> FailedCopy(f, local_path, local_save_path, disk)]
    ELSE [raised |-> FALSE, link |-> FileLink(abspath(local_path)), fs |-> f]

(* an upload that returns None when no share link could be generated *)
upload_file_ShareOrNone(f, is_logged_in, local_path, remote_path, env) ==
    LET first == LocalSave(f, local_path, remote_path, env.disk1)
        again == LocalSave(first.fs, local_path, remote_path, env.disk2)
        second == LocalSave(f, local_path, remote_path, env.disk2)
    IN
    IF ~is_logged_in
    THEN [link |-> first.link, fs |-> first.fs]
    ELSE IF ~exists(f, local_path)
    THEN [link |-> second.link, fs |-> second.fs]
    ELSE IF env.accepted
    THEN [link |-> IF env.share THEN ShareLink ELSE None, fs |-> f]
    ELSE IF ~first.raised
    THEN [link |-> first.link, fs |-> first.fs]
    ELSE [link |-> again.link, fs |-> again.fs]

(* lines 224-329: the value returned and the file system afterwards.
   Not logged in, the save of lines 229-241 is the only one; logged in, a
   save of lines 295-307 that raises is followed by the one of the outer
   except (lines 314-326), on the file system the first one left. *)
upload_file(f, is_logged_in, local_path, remote_path, env) ==
    LET first == LocalSave(f, local_path, remote_path, env.disk1)
        again == LocalSave(first.fs, local_path, remote_path, env.disk2)
        second == LocalSave(f, local_path, remote_path, env.disk2)
    IN
    IF ~is_logged_in
    THEN [link |-> first.link, fs |-> first.fs]
    ELSE IF ~exists(f, local_path)
    THEN (* os.path.getsize raises: the outer except *)
         [link |-> second.link, fs |-> second.fs]
    ELSE IF env.accepted
    THEN [link |-> IF env.share THEN ShareLink ELSE GenericLink, fs |-> f]
    ELSE IF ~first.raised
    THEN [link |-> first.link, fs |-> first.fs]
    ELSE [link |-> again.link, fs |-> again.fs]


(* ------------------------------------------------------------------ *)
(* State                                                              *)
(* ------------------------------------------------------------------ *)
VARIABLES
    (* the objects' fields and the file system *)
    fs,                  \* files on the local disk
    yt_dlp_available,    \* VideoDownloader.yt_dlp_available
    logged_in,           \* TeraboxUploader.logged_in
    processed_episodes,  \* VideoDownloader.processed_episodes
    thread_pool,         \* VideoDownloader.thread_pool
    children,            \* output paths of the extractor children still
                         \* running after their attempt was given up
    (* control *)
    anomalies,           \* anomalies of the environment so far
    pc,                  \* the statement the single thread is at
    caller,              \* who called process_episode: "series" or "client"
    (* locals of process_all_dramas *)
    drama_i, completed_dramas,
    (* locals of process_drama_sequentially *)
    drama_name, total_episodes, idx, successful_episodes,
    (* locals of process_episode and _download_with_yt_dlp *)
    attempt, download_success, terabox_link, transcript_i, transcript_count,
    (* observations of the current process_episode call *)
    extractor_calls,     \* extractor invocations of the current fetch call
    sleeps,              \* the time.sleep durations of the current fetch call
    phases,              \* the phases entered, in order
    outcome,             \* the terminal state the call ended in
    ret,                 \* the value the call returned
    tr_none,             \* sidecar uploads that returned None
    upload_env,          \* what the environment did in the artifact's upload
    remove_raised,       \* os.remove of the temporary file raised
    (* observations of the runners *)
    calls_made,          \* process_episode calls made by the client
    completed_keys,      \* keys of the calls that reached Completed
    series_calls,        \* the indexes process_episode was called with
    series_raised,       \* an exception reached the series' except clause
    report,              \* the (succeeded, total) the series runner reported
    series_log,          \* how each process_drama_sequentially call ended
    series_invoked,      \* the names process_drama_sequentially was called with
    campaign_report,     \* the (completed, total) the campaign reported
    (* what a client that calls again after a failed run sees for itself;
       the program keeps no record of a failed run *)
    clock,               \* seconds since the client started
    failed_at,           \* key -> the clock when the client saw its run fail
    (* the names two process_episode calls derived from their arguments *)
    names,
    (* the upload_file call a client made itself: arguments and result *)
    uploaded

objVars ==
    <<fs, yt_dlp_available, logged_in, processed_episodes, thread_pool>>

(* the fields process_episode and the runners never assign *)
fixedVars == <<yt_dlp_available, logged_in, thread_pool>>

campaignVars ==
    <<drama_i, completed_dramas, series_log, series_invoked, campaign_report>>

seriesVars ==
    <<total_episodes, successful_episodes, series_calls, series_raised, report>>

episodeVars ==
    <<attempt, download_success, terabox_link, transcript_i, transcript_count,
      extractor_calls, sleeps, phases, outcome, ret, tr_none, upload_env,
      remove_raised>>

retryVars == <<clock, failed_at>>

nameVars == <<names, uploaded>>

programVars ==
    <<objVars, children, anomalies, pc, caller, campaignVars, drama_name,
      idx, seriesVars, episodeVars, calls_made, completed_keys, retryVars>>

vars == <<programVars, nameVars>>

(* ------------------------------------------------------------------ *)
(* Initial state: the objects as constructed, nothing running.  The   *)
(* transcripts directory holds the same subset S of the four candidate*)
(* sidecars for every episode; the temp and download directories are  *)
(* empty.                                                             *)
(* ------------------------------------------------------------------ *)
Variants == 1..Len(TranscriptSuffixes)

TranscriptFiles(S) ==
    {transcript_file(n, i, v) : n \in DramaNames, i \in 1..MaxEpisodes, v \in S}

NoEnv ==
    [accepted |-> FALSE, share |-> FALSE, disk1 |-> "ok", disk2 |-> "ok"]

NoReport == [succeeded |-> -1, total |-> -1]

NoNames == [derived |-> FALSE]

NoUpload == [called |-> FALSE]

(* the file systems that hold the sidecars of the suffixes of one of the
   given sets, for every episode of the catalog *)
WithSidecars(SidecarSets) ==
    {[q \in TranscriptFiles(S) |-> "data"] : S \in SidecarSets}

InitWith(FileSystems) ==
    /\ fs \in FileSystems
    /\ yt_dlp_available \in BOOLEAN
    /\ logged_in \in BOOLEAN
    /\ processed_episodes = {}
    /\ thread_pool = [max_workers |-> MAX_THREADS, running |-> {}]
    /\ children = <<>>
    /\ anomalies = 0
    /\ pc = "idle"
    /\ caller = "none"
    /\ drama_i = 0
    /\ completed_dramas = 0
    /\ drama_name = <<>>
    /\ total_episodes = 0
    /\ idx = 0
    /\ successful_episodes = 0
    /\ attempt = 0
    /\ download_success = FALSE
    /\ terabox_link = None
    /\ transcript_i = 0
    /\ transcript_count = 0
    /\ extractor_calls = 0
    /\ sleeps = <<>>
    /\ phases = <<>>
    /\ outcome = "none"
    /\ ret = "none"
    /\ tr_none = 0
    /\ upload_env = NoEnv
    /\ remove_raised = FALSE
    /\ calls_made = 0
    /\ completed_keys = {}
    /\ series_calls = <<>>
    /\ series_raised = FALSE
    /\ report = NoReport
    /\ series_log = <<>>
    /\ series_invoked = <<>>
    /\ campaign_report = NoReport
    /\ clock = 0
    /\ failed_at = <<>>
    /\ names = NoNames
    /\ uploaded = NoUpload

(* a campaign starts with none or the first of the candidate sidecars
   present *)
Init == InitWith(WithSidecars({{}, {1}}))

(* a client's calls start with none, the first, the second and fourth, or
   all of them present *)
InitEpisode == InitWith(WithSidecars({{}, {1}, {2, 4}, Variants}))

(* ------------------------------------------------------------------ *)
(* VideoDownloader.process_episode, entry (lines 500-516)             *)
(* ------------------------------------------------------------------ *)
(* a check that never finds the key *)
AlreadyProcessed_Never(key) == FALSE

(* a check that also refuses a job whose earlier run failed *)
AlreadyProcessed_OrFailed(key) ==
    key \in processed_episodes \/ key \in DOMAIN failed_at

AlreadyProcessed(key) == key \in processed_episodes

process_episode_begin ==
    /\ pc = "process_episode"
    /\ attempt' = 0
    /\ download_success' = FALSE
    /\ terabox_link' = None
    /\ transcript_i' = 0
    /\ transcript_count' = 0
    /\ extractor_calls' = 0
    /\ sleeps' = <<>>
    /\ phases' = <<>>
    /\ tr_none' = 0
    /\ upload_env' = NoEnv
    /\ remove_raised' = FALSE
    /\ IF AlreadyProcessed(episode_key(drama_name, idx))
       THEN /\ outcome' = "Skipped"
            /\ ret' = "False"
            /\ pc' = "pe_return"
       ELSE /\ outcome' = "none"
            /\ ret' = "none"
            /\ pc' = "download_video"
    /\ UNCHANGED <<nameVars, retryVars, children, objVars, anomalies, caller,
                   campaignVars, drama_name, idx, seriesVars, calls_made,
                   completed_keys>>

(* ------------------------------------------------------------------ *)
(* The return of download_video into process_episode (lines 520-522,  *)
(* 585-589): on failure the call ends in DownloadFailed.              *)
(* ------------------------------------------------------------------ *)
AfterDownload(success) ==
    /\ download_success' = success
    /\ IF success
       THEN /\ pc' = "upload"
            /\ UNCHANGED <<outcome, ret>>
       ELSE /\ pc' = "pe_return"
            /\ outcome' = "DownloadFailed"
            /\ ret' = "False"

(* ------------------------------------------------------------------ *)
(* VideoDownloader.download_video (lines 428-440)                     *)
(* os.makedirs is outside every try: when it raises, the exception    *)
(* leaves download_video and process_episode.                         *)
(* ------------------------------------------------------------------ *)
download_video ==
    /\ pc = "download_video"
    /\ phases' = Append(phases, "fetch")
    /\ \E makedirs_ok \in BOOLEAN :
         /\ makedirs_ok \/ anomalies < MaxAnomalies
         /\ anomalies' = IF makedirs_ok THEN anomalies ELSE anomalies + 1
         /\ IF ~makedirs_ok
            THEN /\ pc' = "pe_raise"
                 /\ outcome' = "Raised"
                 /\ ret' = "raised"
                 /\ UNCHANGED download_success
            ELSE IF yt_dlp_available
            THEN /\ pc' = "attempt"
                 /\ UNCHANGED <<download_success, outcome, ret>>
            ELSE AfterDownload(FALSE)
    /\ UNCHANGED <<nameVars, retryVars, children, objVars, caller,
                   campaignVars, drama_name, idx, seriesVars, attempt,
                   terabox_link, transcript_i, transcript_count,
                   extractor_calls, sleeps, tr_none, upload_env,
                   remove_raised, calls_made, completed_keys>>

(* ------------------------------------------------------------------ *)
(* VideoDownloader._download_with_yt_dlp (lines 442-498): one         *)
(* iteration of the retry loop                                        *)
(* ------------------------------------------------------------------ *)
(* What one extractor subprocess does: Popen may raise; otherwise the
   child leaves nothing, an empty file or a file with data at the output
   path, and either exits with a return code or fills the stderr pipe
   (which nobody reads while stdout is drained) and never exits; or it
   prints bytes that are not text, readline (text=True) raises and the
   attempt is given up with the child still running, whatever it has
   written at the output path by then. *)
ExtractorBehaviours ==
    [popen : {"raise"}, stdout : {"text"}, writes : {"nothing"},
     stderr : {"fits"}, rc : {1}]
    \cup [popen : {"ok"}, stdout : {"text"},
          writes : {"nothing", "empty", "data"},
          stderr : {"fits"}, rc : {0, 1}]
    \cup [popen : {"ok"}, stdout : {"text"},
          writes : {"nothing", "empty", "data"},
          stderr : {"overflow"}, rc : {1}]
    \cup [popen : {"ok"}, stdout : {"undecodable"},
          writes : {"nothing", "empty", "data"},
          stderr : {"fits"}, rc : {1}]

(* the ordinary behaviours: exit 0 leaving data, exit 1 leaving nothing *)
ExtractorAnomalies(child) ==
    IF /\ child.popen = "ok"
       /\ child.stdout = "text"
       /\ child.stderr = "fits"
       /\ \/ child.rc = 0 /\ child.writes = "data"
          \/ child.rc # 0 /\ child.writes = "nothing"
    THEN 0 ELSE 1

ExtractorWrites(f, output_path, child) ==
    IF child.writes = "nothing" THEN f
    ELSE WriteFile(f, output_path, child.writes)

(* line 481: return_code == 0 and os.path.exists(output_path) *)
AttemptSucceeded(return_code, f, output_path) ==
    return_code = 0 /\ exists(f, output_path)

(* line 495: the sleep after the failed attempt with loop index n *)
Backoff(n) == REQUEST_DELAY * (n + 1)

(* a loop that gives up after the first failed attempt *)
AttemptFailed_GiveUp ==
    /\ sleeps' = Append(sleeps, Backoff(attempt))
    /\ attempt' = attempt + 1
    /\ AfterDownload(FALSE)

(* lines 493-498: the sleep, then the next iteration or the loop's end *)
AttemptFailed ==
    /\ sleeps' = Append(sleeps, Backoff(attempt))
    /\ attempt' = attempt + 1
    /\ IF attempt + 1 = MAX_RETRY_ATTEMPTS
       THEN AfterDownload(FALSE)
       ELSE /\ pc' = "attempt"
            /\ UNCHANGED <<download_success, outcome, ret>>

download_attempt ==
    /\ pc = "attempt"
    /\ attempt < MAX_RETRY_ATTEMPTS
    /\ extractor_calls' = extractor_calls + 1
    /\ LET output_path == temp_path(drama_name, idx) IN
       \E child \in ExtractorBehaviours :
         LET after == ExtractorWrites(fs, output_path, child) IN
         /\ anomalies + ExtractorAnomalies(child) <= MaxAnomalies
         /\ anomalies' = anomalies + ExtractorAnomalies(child)
         /\ IF child.popen = "raise"
            THEN (* the except clause *)
                 /\ fs' = fs
                 /\ AttemptFailed
                 /\ UNCHANGED children
            ELSE IF child.stdout = "undecodable"
            THEN (* readline raises: the except clause, and the child is
                    neither waited for nor killed *)
                 /\ fs' = after
                 /\ children' = Append(children, output_path)
                 /\ AttemptFailed
            ELSE IF child.stderr = "overflow"
            THEN (* readline never returns: the child is blocked writing *)
                 /\ fs' = after
                 /\ pc' = "blocked"
                 /\ UNCHANGED <<sleeps, attempt, download_success, outcome,
                                ret, children>>
            ELSE IF AttemptSucceeded(child.rc, after, output_path)
            THEN /\ fs' = after
                 /\ AfterDownload(TRUE)
                 /\ UNCHANGED <<sleeps, attempt, children>>
            ELSE /\ fs' = after
                 /\ AttemptFailed
                 /\ UNCHANGED children
    /\ UNCHANGED <<nameVars, retryVars, fixedVars, processed_episodes,
                   caller, campaignVars, drama_name, idx, seriesVars,
                   terabox_link, transcript_i, transcript_count, phases,
                   tr_none, upload_env, remove_raised, calls_made,
                   completed_keys>>

(* An extractor child whose attempt was given up runs on beside the
   program.  One of its writes: it creates or truncates the file at its
   output path, or puts data there, and keeps running. *)
child_writes ==
    /\ \E k \in 1..Len(children) :
         \E writes \in {"empty", "data"} :
            fs' = ExtractorWrites(fs, children[k], [writes |-> writes])
    /\ UNCHANGED <<nameVars, retryVars, fixedVars, children,
                   processed_episodes, anomalies, pc, caller, campaignVars,
                   drama_name, idx, seriesVars, episodeVars, calls_made,
                   completed_keys>>

(* such a child exits: it writes no more *)
child_exits ==
    /\ \E k \in 1..Len(children) :
         children' = SubSeq(children, 1, k - 1)
                         \o SubSeq(children, k + 1, Len(children))
    /\ UNCHANGED <<nameVars, retryVars, fixedVars, fs, processed_episodes,
                   anomalies, pc, caller, campaignVars, drama_name, idx,
                   seriesVars, episodeVars, calls_made, completed_keys>>

(* the steps of the children, whatever the program is doing by then *)
ChildStep == child_writes \/ child_exits

(* ------------------------------------------------------------------ *)
(* process_episode, the upload phase (lines 526-528)                  *)
(* ------------------------------------------------------------------ *)
(* the frame of _download_with_yt_dlp is gone once process_episode goes on *)
DownloadFrameGone ==
    /\ attempt' = 0
    /\ extractor_calls' = 0
    /\ sleeps' = <<>>

upload_episode ==
    /\ pc = "upload"
    /\ phases' = Append(phases, "upload")
    /\ \E local_path \in {temp_path(drama_name, idx)},
          remote_path \in {terabox_path(drama_name, idx)} :
       \E env \in UploadEnvs :
         /\ anomalies + UploadAnomalies(env) <= MaxAnomalies
         /\ \E r \in {upload_file(fs, logged_in, local_path, remote_path,
                                  env)} :
              /\ anomalies' = anomalies + UploadAnomalies(env)
              /\ terabox_link' = r.link
              /\ fs' = r.fs
              /\ upload_env' = env
    /\ pc' = "delete"
    /\ DownloadFrameGone
    /\ UNCHANGED <<nameVars, retryVars, children, fixedVars,
                   processed_episodes, caller, campaignVars, drama_name, idx,
                   seriesVars, download_success, transcript_i,
                   transcript_count, outcome, ret, tr_none, remove_raised,
                   calls_made, completed_keys>>

(* ------------------------------------------------------------------ *)
(* process_episode, the deletion of the temporary file and the branch *)
(* on the link (lines 530-541, 582-589)                               *)
(* ------------------------------------------------------------------ *)
(* a pipeline that keeps the temporary file *)
remove_temp_Keep(f, path, remove_ok) == f

(* os.remove inside try/except: a failure leaves the file system as is *)
remove_temp(f, path, remove_ok) ==
    IF remove_ok /\ exists(f, path) THEN RemoveFile(f, path) ELSE f

(* a branch that goes on whatever the upload returned *)
UploadSucceeded_Always(link) == TRUE

(* line 538: if terabox_link *)
UploadSucceeded(link) == Truthy(link)

(* a deletion whose failure leaves process_episode as an exception *)
delete_temp_Fatal ==
    /\ pc = "delete"
    /\ upload_env' = NoEnv
    /\ \E remove_ok \in BOOLEAN :
         /\ remove_ok \/ anomalies < MaxAnomalies
         /\ anomalies' = IF remove_ok THEN anomalies ELSE anomalies + 1
         /\ fs' = remove_temp(fs, temp_path(drama_name, idx), remove_ok)
         /\ remove_raised' = ~remove_ok
         /\ IF ~remove_ok
            THEN /\ pc' = "pe_raise"
                 /\ outcome' = "Raised"
                 /\ ret' = "raised"
                 /\ phases' = Append(phases, "delete")
                 /\ UNCHANGED <<transcript_i, transcript_count>>
            ELSE IF UploadSucceeded(terabox_link)
            THEN /\ pc' = "sidecars"
                 /\ phases' = phases \o <<"delete", "sidecars">>
                 /\ transcript_i' = 1
                 /\ transcript_count' = 0
                 /\ UNCHANGED <<outcome, ret>>
            ELSE /\ pc' = "pe_return"
                 /\ phases' = Append(phases, "delete")
                 /\ outcome' = "StoreFailed"
                 /\ ret' = "False"
                 /\ UNCHANGED <<transcript_i, transcript_count>>
    /\ UNCHANGED <<nameVars, retryVars, children, fixedVars,
                   processed_episodes, caller, campaignVars, drama_name, idx,
                   seriesVars, attempt, download_success, terabox_link,
                   extractor_calls, sleeps, tr_none, calls_made,
                   completed_keys>>

(* a deletion made only when the upload returned a link *)
delete_temp_OnlyIfUploaded ==
    /\ pc = "delete"
    /\ upload_env' = NoEnv
    /\ IF UploadSucceeded(terabox_link)
       THEN /\ \E remove_ok \in BOOLEAN :
                 /\ remove_ok \/ anomalies < MaxAnomalies
                 /\ anomalies' = IF remove_ok THEN anomalies ELSE anomalies + 1
                 /\ fs' = remove_temp(fs, temp_path(drama_name, idx), remove_ok)
                 /\ remove_raised' = ~remove_ok
            /\ pc' = "sidecars"
            /\ phases' = phases \o <<"delete", "sidecars">>
            /\ transcript_i' = 1
            /\ transcript_count' = 0
            /\ UNCHANGED <<outcome, ret>>
       ELSE /\ pc' = "pe_return"
            /\ outcome' = "StoreFailed"
            /\ ret' = "False"
            /\ UNCHANGED <<fs, anomalies, remove_raised, phases, transcript_i,
                           transcript_count>>
    /\ UNCHANGED <<nameVars, retryVars, children, fixedVars,
                   processed_episodes, caller, campaignVars, drama_name, idx,
                   seriesVars, attempt, download_success, terabox_link,
                   extractor_calls, sleeps, tr_none, calls_made,
                   completed_keys>>

delete_temp ==
    /\ pc = "delete"
    /\ \E remove_ok \in BOOLEAN :
         /\ remove_ok \/ anomalies < MaxAnomalies
         /\ anomalies' = IF remove_ok THEN anomalies ELSE anomalies + 1
         /\ fs' = remove_temp(fs, temp_path(drama_name, idx), remove_ok)
         /\ remove_raised' = ~(remove_ok /\ exists(fs, temp_path(drama_name, idx)))
    /\ upload_env' = NoEnv
    /\ IF UploadSucceeded(terabox_link)
       THEN /\ pc' = "sidecars"
            /\ phases' = phases \o <<"delete", "sidecars">>
            /\ transcript_i' = 1
            /\ transcript_count' = 0
            /\ UNCHANGED <<outcome, ret>>
       ELSE /\ pc' = "pe_return"
            /\ phases' = Append(phases, "delete")
            /\ outcome' = "StoreFailed"
            /\ ret' = "False"
            /\ UNCHANGED <<transcript_i, transcript_count>>
    /\ UNCHANGED <<nameVars, retryVars, children, fixedVars,
                   processed_episodes, caller, campaignVars, drama_name, idx,
                   seriesVars, attempt, download_success, terabox_link,
                   extractor_calls, sleeps, tr_none, calls_made,
                   completed_keys>>

(* ------------------------------------------------------------------ *)
(* process_episode, one iteration of the loop over transcript_files   *)
(* (lines 556-570)                                                    *)
(* ------------------------------------------------------------------ *)
(* a count of the uploaded sidecars only *)
CountTranscript_Uploaded(count, tr_link) ==
    IF Truthy(tr_link) THEN count + 1 ELSE count

(* lines 565-568: the count does not depend on the upload's result *)
CountTranscript(count, tr_link) == count + 1

attach_sidecar ==
    /\ pc = "sidecars"
    /\ transcript_i <= Len(TranscriptSuffixes)
    /\ \E transcript \in {transcript_file(drama_name, idx, transcript_i)},
          remote_path \in
              {terabox_transcript_path(drama_name, idx, transcript_i)} :
       IF exists(fs, transcript)
       THEN \E env \in UploadEnvs :
              /\ anomalies + UploadAnomalies(env) <= MaxAnomalies
              /\ \E r \in {upload_file(fs, logged_in, transcript,
                                       remote_path, env)} :
                  /\ anomalies' = anomalies + UploadAnomalies(env)
                  /\ fs' = r.fs
                  /\ transcript_count' =
                         CountTranscript(transcript_count, r.link)
                  /\ tr_none' = IF Truthy(r.link) THEN tr_none ELSE tr_none + 1
       ELSE UNCHANGED <<fs, transcript_count, tr_none, anomalies>>
    /\ transcript_i' = transcript_i + 1
    /\ pc' = "sidecars"
    /\ UNCHANGED <<nameVars, retryVars, children, fixedVars,
                   processed_episodes, caller, campaignVars, drama_name, idx,
                   seriesVars, attempt, download_success, terabox_link,
                   extractor_calls, sleeps, phases, outcome, ret, upload_env,
                   remove_raised, calls_made, completed_keys>>

(* ------------------------------------------------------------------ *)
(* process_episode, the completion (lines 572-581)                    *)
(* ------------------------------------------------------------------ *)
(* a completion that forgets the keys recorded before *)
MarkProcessed_Replace(set, key) == {key}

MarkProcessed(set, key) == set \cup {key}

mark_processed ==
    /\ pc = "sidecars"
    /\ transcript_i > Len(TranscriptSuffixes)
    /\ processed_episodes' =
           MarkProcessed(processed_episodes, episode_key(drama_name, idx))
    /\ completed_keys' = completed_keys \cup {episode_key(drama_name, idx)}
    /\ phases' = Append(phases, "record")
    /\ outcome' = "Completed"
    /\ ret' = "True"
    /\ pc' = "pe_return"
    /\ UNCHANGED <<nameVars, retryVars, children, fs, fixedVars, anomalies,
                   caller, campaignVars, drama_name, idx, seriesVars,
                   attempt, download_success, terabox_link, transcript_i,
                   transcript_count, extractor_calls, sleeps, tr_none,
                   upload_env, remove_raised, calls_made>>

(* the frame of process_episode is gone once the call has ended *)
EpisodeFrameGone ==
    /\ attempt' = 0
    /\ download_success' = FALSE
    /\ terabox_link' = None
    /\ transcript_i' = 0
    /\ transcript_count' = 0
    /\ extractor_calls' = 0
    /\ sleeps' = <<>>
    /\ phases' = <<>>
    /\ outcome' = "none"
    /\ ret' = "none"
    /\ tr_none' = 0
    /\ upload_env' = NoEnv
    /\ remove_raised' = FALSE

(* ------------------------------------------------------------------ *)
(* A client of the class calling process_episode(drama_name, idx, url)*)
(* once the previous call has returned or raised                      *)
(* ------------------------------------------------------------------ *)
ClientJobs == {<<dramas[1].name, i>> : i \in 1..MaxEpisodes}

client_call ==
    /\ \/ pc = "idle"
       \/ caller = "client" /\ pc \in {"pe_return", "pe_raise"}
    /\ calls_made < MaxCalls
    /\ calls_made' = calls_made + 1
    /\ caller' = "client"
    /\ \E job \in ClientJobs :
         /\ drama_name' = job[1]
         /\ idx' = job[2]
    /\ pc' = "process_episode"
    /\ EpisodeFrameGone
    /\ UNCHANGED <<nameVars, retryVars, children, objVars, anomalies,
                   campaignVars, seriesVars, completed_keys>>

(* TeraboxUploader.login (lines 96-178) called by the client between two
   process_episode calls: the flag is set when a login endpoint or the
   verification answers, and is never cleared *)
terabox_login ==
    /\ \/ pc = "idle"
       \/ caller = "client" /\ pc \in {"pe_return", "pe_raise"}
    /\ \E answered \in BOOLEAN :
         logged_in' = (logged_in \/ answered)
    /\ UNCHANGED <<nameVars, retryVars, children, fs, yt_dlp_available,
                   processed_episodes, thread_pool, anomalies, pc, caller,
                   campaignVars, drama_name, idx, seriesVars, episodeVars,
                   calls_made, completed_keys>>

EpisodeStep ==
    \/ process_episode_begin
    \/ download_video
    \/ download_attempt
    \/ upload_episode
    \/ delete_temp
    \/ attach_sidecar
    \/ mark_processed

NextEpisode == client_call \/ terabox_login \/ ChildStep \/ EpisodeStep

SpecEpisode == InitEpisode /\ [][NextEpisode]_vars

(* ------------------------------------------------------------------ *)
(* A client that calls process_episode again after a run that ended   *)
(* without Completed: it sees the run fail, lets no time or more than *)
(* the staleness threshold of the spec's job ledger pass, and calls.  *)
(* The program has no ledger backend (lines 500-506 test the          *)
(* session-local set only), so nothing but the client's own clock     *)
(* tells the failed run's time.                                       *)
(* ------------------------------------------------------------------ *)
(* the staleness threshold of the job ledger, in seconds *)
STALE_AFTER == 3600

Waits == {0, STALE_AFTER + 1}

client_retry ==
    /\ \/ pc = "idle"
       \/ caller = "client" /\ pc \in {"pe_return", "pe_raise"}
    /\ calls_made < MaxCalls
    /\ calls_made' = calls_made + 1
    /\ caller' = "client"
    /\ failed_at' =
           IF outcome \in {"DownloadFailed", "StoreFailed"}
           THEN LET key == episode_key(drama_name, idx) IN
                [k \in (DOMAIN failed_at) \cup {key} |->
                    IF k = key THEN clock ELSE failed_at[k]]
           ELSE failed_at
    /\ \E job \in ClientJobs, wait \in Waits :
         /\ drama_name' = job[1]
         /\ idx' = job[2]
         /\ clock' = clock + wait
    /\ pc' = "process_episode"
    /\ EpisodeFrameGone
    /\ UNCHANGED <<nameVars, children, objVars, anomalies, campaignVars,
                   seriesVars, completed_keys>>

NextRetry == client_retry \/ terabox_login \/ ChildStep \/ EpisodeStep

SpecRetry == InitEpisode /\ [][NextRetry]_vars

(* ------------------------------------------------------------------ *)
(* The names process_episode and upload_file derive from a job:       *)
(* two calls with distinct (drama_name, idx) arguments each compute   *)
(* their processed-set key, their scratch path and the path the local *)
(* fallback saves to.                                                 *)
(* ------------------------------------------------------------------ *)
(* series names a catalog can hold: its keys are arbitrary strings *)
NameInputs ==
    DramaNames \cup
        { <<"a", "_", "E", "p">>,
          <<"a", " ", "b">>,
          <<"b", "/", "a">>,
          TEMP_DIR \o <<"/", "a">> }

(* positive indexes, of one and of two digits *)
IdxInputs == {1, 2, 11}

JobInputs == NameInputs \X IdxInputs

DerivedNames(job) ==
    [key  |-> episode_key(job[1], job[2]),
     temp |-> temp_path(job[1], job[2]),
     save |-> path_join(DOWNLOAD_DIR, basename(terabox_path(job[1], job[2])))]

derive_names ==
    /\ pc = "idle"
    /\ ~names.derived
    /\ \E a \in JobInputs, b \in JobInputs :
         /\ a # b
         /\ names' = [derived |-> TRUE,
                      jobs    |-> <<a, b>>,
                      of      |-> <<DerivedNames(a), DerivedNames(b)>>]
    /\ UNCHANGED <<programVars, uploaded>>

NextNames == derive_names

SpecNames == InitWith({NoFiles}) /\ [][NextNames]_vars

(* ------------------------------------------------------------------ *)
(* A client that calls TeraboxUploader.upload_file itself, once, with *)
(* paths of its own choice.                                           *)
(* ------------------------------------------------------------------ *)
(* local paths: an artifact under the temp directory, and a sidecar *)
LocalInputs ==
    {temp_path(dramas[1].name, 1), transcript_file(dramas[1].name, 1, 1)}

(* the remote directory of a series *)
RemoteDir == <<"/", "d", "r", "a", "m", "a", "s", "/">> \o dramas[1].name

(* remote paths: the one process_episode derives, the series directory
   with a trailing slash, with "." and with "..", and the empty path *)
RemoteInputs ==
    {terabox_path(dramas[1].name, 1),
     RemoteDir \o <<"/">>,
     RemoteDir \o <<"/", ".">>,
     RemoteDir \o <<"/", ".", ".">>,
     <<>>}

(* file systems with each of the local paths missing or present, the
   artifact empty or with data *)
UploadFileSystems ==
    {[q \in P |-> IF q = temp_path(dramas[1].name, 1) THEN size ELSE "data"] :
        P \in SUBSET LocalInputs, size \in {"empty", "data"}}

InitUpload == InitWith(UploadFileSystems)

client_upload ==
    /\ pc = "idle"
    /\ ~uploaded.called
    /\ \E local_path \in LocalInputs, remote_path \in RemoteInputs,
          env \in UploadEnvs :
         /\ anomalies + UploadAnomalies(env) <= MaxAnomalies
         /\ \E r \in {upload_file(fs, logged_in, local_path, remote_path,
                                  env)} :
              /\ anomalies' = anomalies + UploadAnomalies(env)
              /\ fs' = r.fs
              /\ uploaded' = [called      |-> TRUE,
                              local_path  |-> local_path,
                              remote_path |-> remote_path,
                              env         |-> env,
                              before      |-> fs,
                              link        |-> r.link]
    /\ UNCHANGED <<names, retryVars, children, fixedVars, processed_episodes,
                   pc, caller, campaignVars, drama_name, idx, seriesVars,
                   episodeVars, calls_made, completed_keys>>

NextUpload == client_upload

SpecUpload == InitUpload /\ [][NextUpload]_vars

(* ------------------------------------------------------------------ *)
(* VideoDownloader.process_all_dramas (lines 657-687)                 *)
(* ------------------------------------------------------------------ *)
process_all_dramas_begin ==
    /\ pc = "idle"
    /\ drama_i' = 1
    /\ completed_dramas' = 0
    /\ pc' = "campaign_loop"
    /\ UNCHANGED <<nameVars, retryVars, children, objVars, anomalies, caller,
                   series_log, series_invoked, campaign_report, drama_name,
                   idx, seriesVars, episodeVars, calls_made, completed_keys>>

(* line 671: the next drama of the catalog, or the final report *)
campaign_loop ==
    /\ pc = "campaign_loop"
    /\ IF drama_i <= Len(dramas)
       THEN /\ drama_name' = dramas[drama_i].name
            /\ series_invoked' = Append(series_invoked, dramas[drama_i].name)
            /\ pc' = "process_drama"
            /\ UNCHANGED campaign_report
       ELSE /\ campaign_report' =
                   [succeeded |-> completed_dramas, total |-> Len(dramas)]
            /\ pc' = "exit"
            /\ UNCHANGED <<drama_name, series_invoked>>
    /\ UNCHANGED <<nameVars, retryVars, children, objVars, anomalies, caller,
                   drama_i, completed_dramas, series_log, idx, seriesVars,
                   episodeVars, calls_made, completed_keys>>

(* lines 677-678: process_drama_sequentially returned *)
SeriesReturns(how) ==
    /\ series_log' = Append(series_log, how)
    /\ completed_dramas' = completed_dramas + 1
    /\ drama_i' = drama_i + 1
    /\ pc' = "campaign_loop"
    /\ UNCHANGED <<series_invoked, campaign_report>>

(* a campaign that lets the exception of a series escape *)
SeriesRaises_Escapes ==
    /\ series_log' = Append(series_log, "raised")
    /\ pc' = "exit"
    /\ UNCHANGED <<drama_i, completed_dramas, series_invoked, campaign_report>>

(* lines 679-681: process_drama_sequentially raised *)
SeriesRaises ==
    /\ series_log' = Append(series_log, "raised")
    /\ drama_i' = drama_i + 1
    /\ pc' = "campaign_loop"
    /\ UNCHANGED <<completed_dramas, series_invoked, campaign_report>>

(* ------------------------------------------------------------------ *)
(* VideoDownloader.process_drama_sequentially (lines 591-655)         *)
(* ------------------------------------------------------------------ *)
(* lines 593-598, before the try: data['link'] raises KeyError for a
   catalog entry without a link *)
process_drama_begin ==
    /\ pc = "process_drama"
    /\ total_episodes' = 0
    /\ successful_episodes' = 0
    /\ series_calls' = <<>>
    /\ series_raised' = FALSE
    /\ report' = NoReport
    /\ idx' = 0
    /\ IF dramas[drama_i].link
       THEN /\ pc' = "enumerate"
            /\ UNCHANGED campaignVars
       ELSE SeriesRaises
    /\ UNCHANGED <<nameVars, retryVars, children, objVars, anomalies, caller,
                   drama_name, episodeVars, calls_made, completed_keys>>

(* What the resolvers do: the Playlist constructor may raise; listing the
   playlist yields found episodes or raises; the yt-dlp fallback, run only
   when the listing raised and yt-dlp is available, prints found ids with
   return code 0, or fails, or raises. *)
Enumerations ==
    [ctor : {"raise"}, primary : {"raise"}, fallback : {"raise"}, found : {0}]
    \cup [ctor : {"ok"}, primary : {"ok"}, fallback : {"raise"},
          found : 0..MaxEpisodes]
    \cup [ctor : {"ok"}, primary : {"raise"}, fallback : {"ok"},
          found : 0..MaxEpisodes]
    \cup [ctor : {"ok"}, primary : {"raise"}, fallback : {"fail", "raise"},
          found : {0}]

(* a fallback that is used although yt-dlp is unavailable *)
video_urls_found_AnyFallback(e, has_yt_dlp) ==
    IF e.primary = "ok" THEN e.found
    ELSE IF e.fallback = "ok" THEN e.found
    ELSE 0

(* lines 605-629: len(video_urls) after both resolvers *)
video_urls_found(e, has_yt_dlp) ==
    IF e.primary = "ok" THEN e.found
    ELSE IF has_yt_dlp /\ e.fallback = "ok" THEN e.found
    ELSE 0

(* lines 600-636 *)
enumerate_episodes ==
    /\ pc = "enumerate"
    /\ \E e \in Enumerations :
         IF e.ctor = "raise"
         THEN (* line 601 raises into the except clause of line 653 *)
              /\ series_raised' = TRUE
              /\ SeriesReturns("error")
              /\ UNCHANGED <<total_episodes, idx, successful_episodes>>
         ELSE IF video_urls_found(e, yt_dlp_available) = 0
         THEN (* lines 631-633 *)
              /\ SeriesReturns("no_videos")
              /\ UNCHANGED <<total_episodes, idx, successful_episodes,
                             series_raised>>
         ELSE /\ total_episodes' = video_urls_found(e, yt_dlp_available)
              /\ successful_episodes' = 0
              /\ idx' = 1
              /\ pc' = "episode_loop"
              /\ UNCHANGED <<campaignVars, series_raised>>
    /\ UNCHANGED <<nameVars, retryVars, children, objVars, anomalies, caller,
                   drama_name, series_calls, report, episodeVars, calls_made,
                   completed_keys>>

(* lines 637-641 and 649-651: the next episode, or the summary *)
episode_loop ==
    /\ pc = "episode_loop"
    /\ IF idx <= total_episodes
       THEN /\ series_calls' = Append(series_calls, idx)
            /\ caller' = "series"
            /\ pc' = "process_episode"
            /\ UNCHANGED <<campaignVars, report>>
       ELSE /\ report' = [succeeded |-> successful_episodes,
                          total |-> total_episodes]
            /\ SeriesReturns("completed")
            /\ UNCHANGED <<series_calls, caller>>
    /\ UNCHANGED <<nameVars, retryVars, children, objVars, anomalies,
                   drama_name, idx, total_episodes, successful_episodes,
                   series_raised, episodeVars, calls_made, completed_keys>>

(* a count of every call that returned *)
CountSuccess_Every(count, returned) == count + 1

(* lines 641-642: the count of successful episodes *)
CountSuccess(count, returned) ==
    IF returned = "True" THEN count + 1 ELSE count

(* lines 641-647: process_episode returned *)
episode_returned ==
    /\ pc = "pe_return"
    /\ caller = "series"
    /\ successful_episodes' = CountSuccess(successful_episodes, ret)
    /\ idx' = idx + 1
    /\ pc' = "episode_loop"
    /\ EpisodeFrameGone
    /\ UNCHANGED <<nameVars, retryVars, children, objVars, anomalies, caller,
                   campaignVars, drama_name, total_episodes, series_calls,
                   series_raised, report, calls_made, completed_keys>>

(* lines 653-655: an exception of process_episode ends the loop *)
episode_raised ==
    /\ pc = "pe_raise"
    /\ caller = "series"
    /\ series_raised' = TRUE
    /\ SeriesReturns("error")
    /\ EpisodeFrameGone
    /\ UNCHANGED <<nameVars, retryVars, children, objVars, anomalies, caller,
                   drama_name, idx, total_episodes, successful_episodes,
                   series_calls, report, calls_made, completed_keys>>

(* the steps of the program itself *)
Program ==
    \/ process_all_dramas_begin
    \/ campaign_loop
    \/ process_drama_begin
    \/ enumerate_episodes
    \/ episode_loop
    \/ episode_returned
    \/ episode_raised
    \/ EpisodeStep

Next == Program \/ ChildStep

Spec == Init /\ [][Next]_vars

(* A campaign started with no sidecar present.  The program is one thread
   that keeps running: a step of its own that can be taken is taken,
   however long the children of given-up attempts go on writing. *)
InitFair == InitWith({NoFiles})

SpecFair == InitFair /\ [][Next]_vars /\ WF_vars(Program)


(* ================================================================== *)
(* Properties                                                         *)
(* ================================================================== *)
CurrentKey == episode_key(drama_name, idx)

CurrentTemp == temp_path(drama_name, idx)

CurrentSave ==
    path_join(DOWNLOAD_DIR, basename(terabox_path(drama_name, idx)))

(* download_video has just returned True / False into process_episode *)
FetchReturnedTrue == pc = "upload"

FetchReturnedFalse == pc = "pe_return" /\ outcome = "DownloadFailed"

ProcessEpisodeReturned == pc = "pe_return"

(* process_episode is past its entry check and has not ended *)
InPipeline ==
    pc \in {"download_video", "attempt", "blocked", "upload", "delete",
            "sidecars"}

AllPhases == <<"fetch", "upload", "delete", "sidecars", "record">>

IsPrefix(s, t) == Len(s) <= Len(t) /\ SubSeq(t, 1, Len(s)) = s

Upto(n) == [i \in 1..n |-> i]

(* C1 as stated: a fetch call returns failure exactly when all 5 attempts
   of the budget failed.  Violated: without yt-dlp, download_video returns
   failure without a single attempt. *)
C1_FailureOnlyAfterFiveAttempts ==
    FetchReturnedFalse => extractor_calls = 5 /\ attempt = 5

(* C1, amended: one fetch call invokes the extractor at most 5 times; it
   returns success at the first successful attempt (every earlier attempt
   of the call failed, none follows); it returns failure exactly when all
   5 attempts failed or, with no attempt at all, when yt-dlp was found
   unavailable at construction; an attempt that raised is a failed one. *)
C1_AttemptBudget ==
    /\ extractor_calls <= 5
    /\ pc = "attempt" => attempt < 5 /\ extractor_calls = attempt
    /\ FetchReturnedTrue =>
           /\ download_success
           /\ yt_dlp_available
           /\ extractor_calls = attempt + 1
    /\ FetchReturnedFalse =>
           IF yt_dlp_available
           THEN extractor_calls = 5 /\ attempt = 5
           ELSE extractor_calls = 0 /\ attempt = 0
    /\ attempt = 5 => FetchReturnedFalse

C1_Witness ==
    /\ FetchReturnedFalse
    /\ extractor_calls = 5
    /\ anomalies = 1

(* C2 as stated: fetch never returns success while the destination file is
   missing or empty.  Violated: the code tests the return code and the
   file's existence, not its size. *)
C2_SuccessMeansNonEmptyFile ==
    FetchReturnedTrue =>
        exists(fs, CurrentTemp) /\ fs[CurrentTemp] # "empty"

(* C3: the phases of one process_episode call are entered in the order
   fetch, upload, delete, sidecars, record, none twice; upload only after
   fetch returned success, sidecars only after the upload returned a
   reference, and the key is in the processed set only once the sidecar
   loop has finished. *)
C3_PhaseOrder ==
    /\ IsPrefix(phases, AllPhases)
    /\ Len(phases) >= 2 => download_success
    /\ Len(phases) >= 4 => Truthy(terabox_link)
    /\ Len(phases) = 5 <=> outcome = "Completed"
    /\ outcome = "Completed" =>
           /\ transcript_i > Len(TranscriptSuffixes)
           /\ CurrentKey \in processed_episodes
    /\ InPipeline => CurrentKey \notin processed_episodes

C3_Witness ==
    /\ ProcessEpisodeReturned
    /\ outcome = "Completed"
    /\ phases = AllPhases

(* C4: process_episode returns True iff it reached Completed, and the
   processed set holds exactly the keys of the calls that reached
   Completed: a call that ends in DownloadFailed or StoreFailed leaves its
   key out, and no key is lost. *)
C4_ProcessedIsCompleted ==
    /\ processed_episodes = completed_keys
    /\ ProcessEpisodeReturned =>
           /\ ret = "True" <=> outcome = "Completed"
           /\ outcome \in {"Skipped", "DownloadFailed", "StoreFailed",
                           "Completed"}
           /\ CurrentKey \in processed_episodes
                  <=> outcome \in {"Skipped", "Completed"}

C4_Witness ==
    /\ ProcessEpisodeReturned
    /\ outcome = "DownloadFailed"
    /\ Cardinality(processed_episodes) = 1

(* C5 as stated: when the artifact's upload returns None the local
   artifact is retained, it still exists when process_episode returns.
   Violated: the temporary file is deleted whatever the upload returned. *)
C5_ArtifactRetained ==
    ProcessEpisodeReturned /\ outcome = "StoreFailed" =>
        exists(fs, CurrentTemp)

(* C5, amended: when fetch succeeded and the artifact's upload returns
   None, the call ends in StoreFailed (returns False, key not recorded, no
   sidecar handled) and the local artifact is not retained: its deletion
   is attempted, and the deletion leaves the scratch path absent unless
   it failed. *)
C5_StoreFailed ==
    /\ [](/\ pc = "delete" /\ ~Truthy(terabox_link) => ENABLED delete_temp
          /\ ProcessEpisodeReturned /\ outcome = "StoreFailed" =>
                 /\ download_success
                 /\ terabox_link = None
                 /\ ret = "False"
                 /\ CurrentKey \notin processed_episodes
                 /\ phases = <<"fetch", "upload", "delete">>
                 /\ transcript_count = 0)
    /\ [][ delete_temp /\ ~Truthy(terabox_link) =>
              /\ outcome' = "StoreFailed"
              /\ exists(fs', CurrentTemp) => remove_raised' ]_vars

C5_Witness ==
    /\ ProcessEpisodeReturned
    /\ outcome = "StoreFailed"
    /\ ~exists(fs, CurrentTemp)

(* whether one attempt to save local_path locally fails by the disk:
   copy2 is called for a file under TEMP_DIR only *)
SaveFailed(disk, local_path) ==
    \/ disk = "raise"
    \/ disk # "ok" /\ StartsWith(local_path, TEMP_DIR)

(* the remote backend failed in the client's upload_file call: not logged
   in, no endpoint accepted, or the remote attempt raised (os.path.getsize
   of a missing file) *)
RemoteFailed ==
    \/ ~logged_in
    \/ ~uploaded.env.accepted
    \/ ~exists(uploaded.before, uploaded.local_path)

(* the local fallback copy itself failed in that call: every save the
   call attempted failed, by the disk or for want of the source *)
LocalCopyFailed ==
    LET local_path == uploaded.local_path
        missing == ~exists(uploaded.before, local_path)
        env == uploaded.env
    IN  \/ missing /\ StartsWith(local_path, TEMP_DIR)
        \/ IF ~logged_in THEN SaveFailed(env.disk1, local_path)
           ELSE IF missing THEN SaveFailed(env.disk2, local_path)
           ELSE /\ SaveFailed(env.disk1, local_path)
                /\ SaveFailed(env.disk2, local_path)

(* q is a path inside the local fallback directory *)
InFallbackDirectory(q) ==
    StartsWith(abspath(q), abspath(DOWNLOAD_DIR) \o <<"/">>)

(* C6 as stated: when the remote backend fails, upload_file returns a
   local file reference instead of None, and for a source file under the
   temp directory a copy is in the local fallback directory afterwards;
   it returns None only when the local fallback copy itself failed.
   Violated by a remote path that ends in "..": the path the copy is made
   to is then the working directory, so the copy is written there, outside
   the fallback directory, and the reference returned is to a directory. *)
C6_LocalFallback ==
    uploaded.called =>
        /\ RemoteFailed /\ ~LocalCopyFailed =>
               /\ uploaded.link.kind = "file"
               /\ StartsWith(uploaded.local_path, TEMP_DIR) =>
                      \E q \in DOMAIN fs :
                         /\ InFallbackDirectory(q)
                         /\ fs[q] = uploaded.before[uploaded.local_path]
        /\ uploaded.link = None => RemoteFailed /\ LocalCopyFailed

(* the candidate sidecars of the current episode that exist *)
PresentSidecars ==
    {v \in Variants : exists(fs, transcript_file(drama_name, idx, v))}

(* C7: sidecars never change the outcome: a call whose fetch succeeded and
   whose artifact upload returned a reference ends in Completed and
   returns True whichever candidates exist and whatever their uploads
   return, and the count is the number of candidates that exist. *)
C7_SidecarsDoNotBlock ==
    /\ pc = "sidecars" =>
           transcript_count =
               Cardinality({v \in PresentSidecars : v < transcript_i})
    /\ ProcessEpisodeReturned /\ download_success /\ Truthy(terabox_link) =>
           /\ outcome = "Completed"
           /\ ret = "True"
           /\ transcript_count = Cardinality(PresentSidecars)

C7_Witness ==
    /\ ProcessEpisodeReturned
    /\ outcome = "Completed"
    /\ transcript_count = 4
    /\ tr_none = 1

(* C8: a process_episode call for a pair that reached Completed before
   ends in Skipped in its first step: no fetch, no upload, no deletion, no
   sidecar, and the file system and the processed set are as before. *)
C8_CompletedIsSkipped ==
    [][ process_episode_begin /\ CurrentKey \in completed_keys =>
            /\ pc' = "pe_return"
            /\ outcome' = "Skipped"
            /\ ret' = "False"
            /\ phases' = <<>>
            /\ extractor_calls' = 0
            /\ fs' = fs
            /\ processed_episodes' = processed_episodes ]_vars

C8_Witness ==
    /\ ProcessEpisodeReturned
    /\ outcome = "Skipped"
    /\ phases = <<>>

(* C9 as stated: an exception of one episode's pipeline is caught at the
   per-episode boundary and the later episodes are still run, so a series
   that has ended has run every enumerated episode.  Violated: the only
   except clause is the series', which ends the loop. *)
C9_LaterEpisodesStillRun ==
    pc = "campaign_loop" /\ series_raised /\ total_episodes > 0 =>
        series_calls = Upto(total_episodes)

(* C10: when no pipeline raises, the series runner calls process_episode
   once for each index 1..n in increasing order and reports succeeded =
   the number of episodes that reached Completed and total = n. *)
C10_SeriesReport ==
    /\ series_calls = Upto(Len(series_calls))
    /\ Len(series_calls) <= total_episodes
    /\ pc = "campaign_loop" /\ total_episodes > 0 /\ ~series_raised =>
           report # NoReport
    /\ pc = "campaign_loop" /\ report # NoReport =>
           /\ ~series_raised
           /\ series_calls = Upto(total_episodes)
           /\ report.total = total_episodes
           /\ report.succeeded =
                  Cardinality({i \in 1..total_episodes :
                                 episode_key(drama_name, i) \in completed_keys})

C10_Witness ==
    /\ pc = "campaign_loop"
    /\ report = [succeeded |-> 1, total |-> 2]
    /\ episode_key(drama_name, 1) \notin completed_keys


(* C11: the campaign runner calls the series runner once for every entry of
   the catalog, in catalog order, whatever earlier series did: a series
   that raised is logged and the next one is called.  Unless a call into
   the extractor never returns, the campaign reaches its final report. *)
C11_CampaignCoversCatalog ==
    /\ [](/\ Len(series_invoked) <= Len(dramas)
          /\ series_invoked =
                 [i \in 1..Len(series_invoked) |-> dramas[i].name]
          /\ Len(series_log) <= Len(series_invoked)
          /\ Len(series_invoked) <= Len(series_log) + 1
          /\ pc = "exit" =>
                 /\ Len(series_invoked) = Len(dramas)
                 /\ Len(series_log) = Len(dramas)
                 /\ campaign_report # NoReport
                 /\ campaign_report.total = Len(dramas))
    /\ <>(pc = "exit" \/ pc = "blocked")

C11_Witness ==
    /\ pc = "exit"
    /\ series_log[1] = "error"
    /\ series_log[2] = "raised"
    /\ Len(series_invoked) = Len(dramas)

(* an enumeration that fails or finds nothing, in the claim's words *)
EnumerationEmpty(e, has_yt_dlp) ==
    \/ e.ctor = "raise"
    \/ e.primary = "ok" /\ e.found = 0
    \/ /\ e.primary = "raise"
       /\ \/ ~has_yt_dlp
          \/ e.fallback \in {"fail", "raise"}
          \/ e.found = 0

(* C12: when the enumeration of a series fails or finds nothing, no
   process_episode call is made for the series, no exception leaves the
   series runner (the series is logged as returned, not as raised) and the
   campaign goes on to the next series. *)
C12_EmptyEnumerationSkipsSeries ==
    [][ enumerate_episodes =>
          /\ \A e \in Enumerations :
                 EnumerationEmpty(e, yt_dlp_available) =>
                     \/ e.ctor = "raise"
                     \/ video_urls_found(e, yt_dlp_available) = 0
          /\ \/ /\ pc' = "episode_loop"
                /\ total_episodes' >= 1
                /\ \E e \in Enumerations :
                       /\ ~EnumerationEmpty(e, yt_dlp_available)
                       /\ e.found = total_episodes'
             \/ /\ pc' = "campaign_loop"
                /\ series_calls' = <<>>
                /\ total_episodes' = 0
                /\ series_log' \in {Append(series_log, "error"),
                                    Append(series_log, "no_videos")}
                /\ drama_i' = drama_i + 1
                /\ processed_episodes' = processed_episodes ]_vars

C12_Witness ==
    /\ pc = "exit"
    /\ series_log[1] = "no_videos"
    /\ series_log[3] = "completed"
    /\ completed_keys # {}


(* C13: the program is the deployment with no ledger backend, where the
   claim always grants and only the session-local set of completed keys
   refuses.  A process_episode call is refused at entry (returns False
   with nothing done) exactly when its key is complete, and is granted,
   going on to the fetch, in every other case: with no earlier run of
   the job, and after a run that ended in DownloadFailed or StoreFailed,
   whether no time or more than 3600 seconds have passed since then. *)
C13_GrantedUnlessComplete ==
    [][ process_episode_begin =>
           /\ CurrentKey \in completed_keys =>
                  pc' = "pe_return" /\ ret' = "False" /\ outcome' = "Skipped"
           /\ CurrentKey \notin completed_keys =>
                  pc' = "download_video" /\ ret' = "none"
           /\ UNCHANGED <<fs, processed_episodes, clock, failed_at>> ]_vars

(* a job whose run was seen to fail has been granted again before the
   threshold passed *)
C13_Witness ==
    /\ pc = "download_video"
    /\ CurrentKey \in DOMAIN failed_at
    /\ CurrentKey \notin completed_keys
    /\ clock - failed_at[CurrentKey] <= STALE_AFTER


(* C14 as stated: no fetch attempt waits forever: for every extractor
   that would terminate by itself, the loop draining its output ends, so
   no attempt is ever stuck.  Violated: stderr is a pipe nobody reads while
   stdout is drained, so a child that fills it never exits and readline
   never returns. *)
C14_NoAttemptWaitsForever == pc # "blocked"

(* C15 as stated: the k-th failed attempt is followed by a sleep of 2*k
   seconds, and a sleep occurs only between a failed attempt and the next
   one: none after a successful attempt, none after the last attempt of
   the budget.  Violated: the sleep follows every failed attempt, the
   fifth included. *)
C15_BackoffOnlyBetweenAttempts ==
    /\ \A k \in 1..Len(sleeps) : sleeps[k] = 2 * k
    /\ FetchReturnedTrue => Len(sleeps) = extractor_calls - 1
    /\ FetchReturnedFalse => Len(sleeps) < MAX_RETRY_ATTEMPTS

(* C16 as stated: when fetch has used up its attempts and process_episode
   returns with DownloadFailed, nothing is left at the scratch path.
   Violated: the failure branch returns without removing the file. *)
C16_NoPartialFileRetained ==
    FetchReturnedFalse => ~exists(fs, CurrentTemp)


(* a returned value that addresses the stored object: a share link or a
   file reference, not the text "Uploaded to Terabox (link not available)" *)
Addressable(link) == link.kind \in {"share", "file"}

(* C17 as stated: whenever an upload endpoint accepted the file,
   upload_file returns an addressable reference, for either outcome of the
   share-link generation.  Violated: without a share link it returns a
   fixed text. *)
C17_RemoteSuccessIsAddressable ==
    pc = "delete" /\ logged_in /\ upload_env.accepted =>
        Addressable(terabox_link)

(* C17, amended: whenever an upload endpoint accepted the file,
   upload_file returns a truthy value for either outcome of the share-link
   generation and makes no local copy: the share link when the generation
   succeeded, otherwise the fixed text, which addresses nothing. *)
C17_RemoteSuccessIsTruthy ==
    /\ pc = "delete" /\ logged_in /\ upload_env.accepted =>
           /\ Truthy(terabox_link)
           /\ terabox_link =
                  IF upload_env.share THEN ShareLink ELSE GenericLink
           /\ Addressable(terabox_link) <=> upload_env.share
    /\ pc = "sidecars" /\ transcript_i <= Len(TranscriptSuffixes) /\ logged_in =>
           LET transcript == transcript_file(drama_name, idx, transcript_i)
               remote ==
                   terabox_transcript_path(drama_name, idx, transcript_i)
           IN  exists(fs, transcript) =>
                 \A env \in UploadEnvs :
                   LET r == upload_file(fs, logged_in, transcript, remote, env)
                   IN  env.accepted =>
                         /\ Truthy(r.link)
                         /\ r.link =
                                IF env.share THEN ShareLink ELSE GenericLink
                         /\ r.fs = fs

C17_Witness ==
    /\ pc = "delete"
    /\ logged_in
    /\ upload_env.accepted
    /\ ~upload_env.share
    /\ terabox_link = GenericLink


(* C18 as stated: the episodes of a series can be run by the bounded pool
   of MAX_THREADS workers: at most that many pipelines are in flight and
   each episode's pipeline is run by a worker of the pool.  Violated: the
   pool is constructed and never given a task; the series runner runs
   every pipeline itself, one after the other. *)
C18_PipelinesRunOnThePool ==
    /\ thread_pool.max_workers = MAX_THREADS
    /\ Cardinality(thread_pool.running) <= thread_pool.max_workers
    /\ InPipeline /\ caller = "series" => idx \in thread_pool.running


(* C19: a failed deletion of the temporary file is not fatal and does not
   change the path of the pipeline: after a successful fetch and an upload
   that returned a link, process_episode goes on to the sidecars and ends
   in Completed (True, key recorded) whether os.remove succeeded or raised;
   a failed deletion only leaves the file where it was. *)
C19_DeleteFailureNotFatal ==
    /\ remove_raised =>
           /\ pc \in {"sidecars", "pe_return"}
           /\ outcome # "Raised"
           /\ exists(fs, CurrentTemp)
    /\ pc = "pe_raise" => ~download_success /\ phases = <<"fetch">>
    /\ ProcessEpisodeReturned /\ download_success /\ Truthy(terabox_link) =>
           /\ outcome = "Completed"
           /\ ret = "True"
           /\ CurrentKey \in processed_episodes

C19_Witness ==
    /\ ProcessEpisodeReturned
    /\ outcome = "Completed"
    /\ remove_raised
    /\ exists(fs, CurrentTemp)

(* the deletions of the temporary file attempted in the current call *)
DeleteAttempts == Cardinality({k \in 1..Len(phases) : phases[k] = "delete"})

(* C20: after a successful fetch process_episode attempts the deletion of
   the temporary file exactly once, whether upload_file returned a link or
   None, and before any sidecar is handled; without a successful fetch it
   attempts none. *)
C20_DeleteAttemptedOnce ==
    /\ [](/\ DeleteAttempts <= 1
          /\ ~download_success => DeleteAttempts = 0
          /\ transcript_i > 0 => DeleteAttempts = 1
          /\ pc = "sidecars" \/ (ProcessEpisodeReturned /\ download_success) =>
                 /\ DeleteAttempts = 1
                 /\ phases[3] = "delete")
    /\ [][ delete_temp => remove_raised' \/ ~exists(fs', CurrentTemp) ]_vars

C20_Witness ==
    /\ ProcessEpisodeReturned
    /\ download_success
    /\ terabox_link = None
    /\ DeleteAttempts = 1


(* a link to an object stored remotely *)
StoredRemotely(link) == link.kind \in {"share", "generic"}

(* C21 as stated: the key is added to the processed set only in calls
   where the artifact was stored remotely, not where upload_file returned
   a local-fallback file reference.  The source says so in the comment on
   the line that records the key, but the branch it sits in tests only
   that the returned value is not None, and a file reference is not. *)
C21_ProcessedOnlyIfRemote ==
    ProcessEpisodeReturned /\ outcome = "Completed" =>
        StoredRemotely(terabox_link)


(* C22 as stated: for any two distinct (series_name, episode_index) pairs
   with positive integer indexes the processed-set key, the scratch path
   and the local-fallback path all differ.  Violated by series names that
   hold a path separator: os.path.basename drops what precedes it and
   os.path.join drops TEMP_DIR before an absolute name. *)
C22_NamesCollisionFree ==
    names.derived =>
        /\ names.of[1].key # names.of[2].key
        /\ names.of[1].temp # names.of[2].temp
        /\ names.of[1].save # names.of[2].save


(* the sidecar files of a file system and their contents *)
TRANSCRIPT_DIR == <<"t", "r", "a", "n", "s", "c", "r", "i", "p", "t", "s">>

SidecarFiles(f) ==
    LET paths == {p \in DOMAIN f : StartsWith(p, TRANSCRIPT_DIR \o <<"/">>)}
    IN  [p \in paths |-> f[p]]

(* C23: sidecar files are read-only to the pipeline: no step of a
   process_episode call, in remote or in local-fallback mode and whatever
   the sidecar uploads return, deletes, moves or overwrites a sidecar
   file, so the local sidecar files are the same before and after the
   call. *)
C23_SidecarsReadOnly ==
    [][ SidecarFiles(fs') = SidecarFiles(fs) ]_vars

C23_Witness ==
    /\ ProcessEpisodeReturned
    /\ outcome = "Completed"
    /\ ~logged_in
    /\ transcript_count = 2
    /\ Cardinality(PresentSidecars) = 2
    /\ exists(fs, CurrentSave)


(* a sequence without repetitions *)
Distinct(seq) ==
    \A i \in 1..Len(seq), j \in 1..Len(seq) : i # j => seq[i] # seq[j]

(* C24: within one campaign over a catalog of distinct series names
   process_episode is called at most once for any (series, index) pair:
   each series is run once and each index once within it, so the pair of
   a call was never completed before, no call ends in Skipped, and nothing
   of the episode is on disk when its download starts. *)
C24_EachPairCalledOnce ==
    /\ Distinct(series_invoked)
    /\ Distinct(series_calls)
    /\ outcome # "Skipped"
    /\ pc = "process_episode" =>
           /\ drama_name = series_invoked[Len(series_invoked)]
           /\ idx = series_calls[Len(series_calls)]
           /\ CurrentKey \notin processed_episodes
    /\ pc = "download_video" =>
           /\ ~exists(fs, CurrentTemp)
           /\ ~exists(fs, CurrentSave)

C24_Witness ==
    /\ pc = "process_episode"
    /\ drama_name = dramas[3].name
    /\ idx = 1
    /\ processed_episodes =
           {episode_key(dramas[1].name, i) : i \in 1..MaxEpisodes}


(* the series calls so far that ended the way h names *)
SeriesEnded(h) == {i \in 1..Len(series_log) : series_log[i] \in h}

(* C25 as stated: the final count of successfully processed series is the
   number of series whose processing ended without a series-level error; a
   series whose enumeration found no videos, or whose processing raised,
   is not counted.  Violated: the count is incremented after every series
   call that returns, and the series runner returns normally both when it
   found no videos and when it caught an exception. *)
C25_CountIsSeriesWithoutError ==
    pc = "exit" =>
        campaign_report.succeeded = Cardinality(SeriesEnded({"completed"}))

====
